---- MODULE Spec2Model ----
(***************************************************************************)
(* TDS Solver (app.py): one inbound POST /api/ request is ingested into a  *)
(* text blob, embedded in a prompt and forwarded once to the completion    *)
(* endpoint.                                                               *)
(*                                                                         *)
(* Text (str) is a sequence of Unicode code points, bytes a sequence of    *)
(* numbers in 0..255.  String literals of the source appear as their code  *)
(* points, with the literal in a comment next to them.                     *)
(***************************************************************************)
EXTENDS Integers, Sequences, FiniteSets, TLC

\* ------------------------------------------------------------------ bounds
\* longest byte payload of a stand-alone upload
MaxBytes == 2
\* most members of an uploaded archive
MaxMembers == 2

\* ------------------------------------------------------------ str helpers
\* str.lower() on the ASCII range (all modelled names are ASCII)
Lower(c) == IF c >= 65 /\ c <= 90 THEN c + 32 ELSE c

LowerStr(s) == [i \in 1..Len(s) |-> Lower(s[i])]

\* str.endswith(suf)
EndsWith(s, suf) ==
    /\ Len(s) >= Len(suf)
    /\ SubSeq(s, Len(s) - Len(suf) + 1, Len(s)) = suf

\* str.endswith(tuple): true when some element of the tuple is a suffix
EndsWithAny(s, sufs) == \E i \in 1..Len(sufs) : EndsWith(s, sufs[i])

\* fname.split('.')[-1]: what follows the last '.', the whole name when
\* there is none
SplitLast(s) ==
    LET dots == {i \in 1..Len(s) : s[i] = 46}
    IN  IF dots = {} THEN s
        ELSE LET last == CHOOSE i \in dots : \A j \in dots : j <= i
             IN  SubSeq(s, last + 1, Len(s))

\* str.isspace() of one code point
IsSpace(c) ==
    c \in (9..13) \cup (28..32) \cup {133, 160, 5760, 8232, 8233, 8239, 8287, 12288}
          \cup (8192..8202)

RECURSIVE LStrip(_)
LStrip(s) == IF s # <<>> /\ IsSpace(s[1]) THEN LStrip(Tail(s)) ELSE s

RECURSIVE RStrip(_)
RStrip(s) ==
    IF s # <<>> /\ IsSpace(s[Len(s)]) THEN RStrip(SubSeq(s, 1, Len(s) - 1)) ELSE s

\* str.strip()
Strip(s) == RStrip(LStrip(s))

\* ------------------------------------------------------------------ codecs
\* a decode/parse result: ok with a value, or failed
Ok(v) == [ok |-> TRUE, val |-> v]
Failed == [ok |-> FALSE, val |-> <<>>]

IsCont(b) == b >= 128 /\ b <= 191

\* bytes.decode('utf-8'), strict: shortest form only, no surrogates,
\* nothing above U+10FFFF
RECURSIVE Utf8Decode(_)
Utf8Decode(b) ==
    IF b = <<>> THEN Ok(<<>>)
    ELSE
      LET b1 == b[1]
          n  == IF b1 < 128 THEN 1
                ELSE IF b1 >= 194 /\ b1 <= 223 THEN 2
                ELSE IF b1 >= 224 /\ b1 <= 239 THEN 3
                ELSE IF b1 >= 240 /\ b1 <= 244 THEN 4
                ELSE 0
      IN
      IF n = 0 \/ Len(b) < n THEN Failed
      ELSE
        LET good ==
              CASE n = 1 -> TRUE
                [] n = 2 -> IsCont(b[2])
                [] n = 3 -> /\ IsCont(b[2]) /\ IsCont(b[3])
                            /\ (b1 = 224 => b[2] >= 160)
                            /\ (b1 = 237 => b[2] <= 159)
                [] n = 4 -> /\ IsCont(b[2]) /\ IsCont(b[3]) /\ IsCont(b[4])
                            /\ (b1 = 240 => b[2] >= 144)
                            /\ (b1 = 244 => b[2] <= 143)
            cp ==
              CASE n = 1 -> b1
                [] n = 2 -> (b1 - 192) * 64 + (b[2] - 128)
                [] n = 3 -> (b1 - 224) * 4096 + (b[2] - 128) * 64 + (b[3] - 128)
                [] n = 4 -> (b1 - 240) * 262144 + (b[2] - 128) * 4096
                            + (b[3] - 128) * 64 + (b[4] - 128)
        IN
        IF ~good THEN Failed
        ELSE LET rest == Utf8Decode(SubSeq(b, n + 1, Len(b)))
             IN  IF rest.ok THEN Ok(<<cp>> \o rest.val) ELSE Failed

\* sys.byteorder = 'little' on the interpreter the service runs on
NativeLittleEndian == TRUE

\* the 16-bit code units of an even-length byte string
Utf16Units(b, le) ==
    [i \in 1..(Len(b) \div 2) |->
        IF le THEN b[2 * i - 1] + 256 * b[2 * i]
        ELSE 256 * b[2 * i - 1] + b[2 * i]]

\* code units to code points: a high surrogate must be followed by a low one,
\* a low surrogate may not stand alone
RECURSIVE Utf16Combine(_)
Utf16Combine(u) ==
    IF u = <<>> THEN Ok(<<>>)
    ELSE
      LET u1 == u[1] IN
      IF u1 >= 55296 /\ u1 <= 56319 THEN
        IF Len(u) >= 2 /\ u[2] >= 56320 /\ u[2] <= 57343 THEN
          LET rest == Utf16Combine(SubSeq(u, 3, Len(u)))
          IN  IF rest.ok
              THEN Ok(<<65536 + (u1 - 55296) * 1024 + (u[2] - 56320)>> \o rest.val)
              ELSE Failed
        ELSE Failed
      ELSE IF u1 >= 56320 /\ u1 <= 57343 THEN Failed
      ELSE LET rest == Utf16Combine(Tail(u))
           IN  IF rest.ok THEN Ok(<<u1>> \o rest.val) ELSE Failed

\* bytes.decode('utf-16'), strict: a leading byte order mark selects the byte
\* order and is dropped, otherwise native order; an odd length is truncated
\* data
Utf16Decode(b) ==
    LET bomLE == Len(b) >= 2 /\ b[1] = 255 /\ b[2] = 254
        bomBE == Len(b) >= 2 /\ b[1] = 254 /\ b[2] = 255
        le    == IF bomLE THEN TRUE ELSE IF bomBE THEN FALSE ELSE NativeLittleEndian
        body  == IF bomLE \/ bomBE THEN SubSeq(b, 3, Len(b)) ELSE b
    IN  IF Len(body) % 2 # 0 THEN Failed
        ELSE Utf16Combine(Utf16Units(body, le))

\* the cp1252 decoding table for 0x80..0x9F; 0 marks an undefined byte
Cp1252High ==
    <<8364, 0, 8218, 402, 8222, 8230, 8224, 8225, 710, 8240, 352, 8249, 338, 0, 381, 0,
      0, 8216, 8217, 8220, 8221, 8226, 8211, 8212, 732, 8482, 353, 8250, 339, 0, 382, 376>>

Cp1252Char(c) == IF c >= 128 /\ c <= 159 THEN Cp1252High[c - 127] ELSE c

\* bytes.decode('cp1252'), strict: 0x81 0x8D 0x8F 0x90 0x9D are undefined
Cp1252Decode(b) ==
    IF \E i \in 1..Len(b) : b[i] >= 128 /\ b[i] <= 159 /\ Cp1252High[b[i] - 127] = 0
    THEN Failed
    ELSE Ok([i \in 1..Len(b) |-> Cp1252Char(b[i])])

Decode(b, encoding) ==
    CASE encoding = "utf-8"  -> Utf8Decode(b)
      [] encoding = "utf-16" -> Utf16Decode(b)
      [] encoding = "cp1252" -> Cp1252Decode(b)

\* ------------------------------------------------------------- exceptions
\* an exception object: its class and str(e)
Exc(type, msg) == [type |-> type, msg |-> msg]
NoExc == Exc("none", <<>>)

\* the outcome of a call: a returned text, or a raised exception; calls lists
\* the invocations of try_decode made during the call
Return(v, calls) == [raised |-> FALSE, val |-> v, exc |-> NoExc, calls |-> calls]
Raise(e, calls) == [raised |-> TRUE, val |-> <<>>, exc |-> e, calls |-> calls]

\* UnicodeDecodeError(*args): the constructor takes exactly five arguments
\* (encoding, object, start, end, reason); any other count is a TypeError
\* "function takes exactly 5 arguments (1 given)"
UnicodeDecodeErrorNew(args) ==
    IF Len(args) = 5
    THEN Exc("UnicodeDecodeError", args[5])
    ELSE Exc("TypeError",
             <<102, 117, 110, 99, 116, 105, 111, 110, 32, 116, 97, 107, 101, 115, 32,
               101, 120, 97, 99, 116, 108, 121, 32, 53, 32, 97, 114, 103, 117, 109, 101,
               110, 116, 115, 32, 40, 49, 32, 103, 105, 118, 101, 110, 41>>)

\* ------------------------------------------------------- Encoding Resolver
Encodings == <<"utf-8", "utf-16", "cp1252">>

\* "Unable to decode with utf-8, utf-16, or cp1252"
UnableToDecode ==
    <<85, 110, 97, 98, 108, 101, 32, 116, 111, 32, 100, 101, 99, 111, 100, 101, 32, 119,
      105, 116, 104, 32, 117, 116, 102, 45, 56, 44, 32, 117, 116, 102, 45, 49, 54, 44,
      32, 111, 114, 32, 99, 112, 49, 50, 53, 50>>

\* one invocation of try_decode: its argument and how it ended
DecodeCall(content, raised, e, text) ==
    [content |-> content, raised |-> raised, exc |-> e, text |-> text]

\* the for loop of try_decode from candidate i on; when no candidate is left
\* line 103 evaluates UnicodeDecodeError("...") and raises what that gives
RECURSIVE TryFrom(_, _)
TryFrom(content, i) ==
    IF i > Len(Encodings)
    THEN LET e == UnicodeDecodeErrorNew(<<UnableToDecode>>)
         IN  Raise(e, <<DecodeCall(content, TRUE, e, <<>>)>>)
    ELSE LET r == Decode(content, Encodings[i])
         IN  IF r.ok THEN Return(r.val, <<DecodeCall(content, FALSE, NoExc, r.val)>>)
             ELSE TryFrom(content, i + 1)

try_decode(content) == TryFrom(content, 1)

\* ----------------------------------------------------------------- json
\* json.loads / json.dumps on the JSON texts the modelled payloads can
\* spell: integers and arrays of them, with whitespace.  Strings, objects,
\* literals, fractions and exponents need characters no payload holds.
JInt(n) == [t |-> "int", n |-> n, items |-> <<>>]
JList(items) == [t |-> "list", n |-> 0, items |-> items]
JOk(v, next) == [ok |-> TRUE, val |-> v, next |-> next]
JFail == [ok |-> FALSE, val |-> JInt(0), next |-> 0]

IsDigit(c) == c >= 48 /\ c <= 57
JsonWs(c) == c \in {32, 9, 10, 13}

RECURSIVE SkipWs(_, _)
SkipWs(s, i) == IF i <= Len(s) /\ JsonWs(s[i]) THEN SkipWs(s, i + 1) ELSE i

RECURSIVE ScanDigits(_, _)
ScanDigits(s, i) == IF i <= Len(s) /\ IsDigit(s[i]) THEN ScanDigits(s, i + 1) ELSE i

RECURSIVE DigitsValue(_)
DigitsValue(d) ==
    IF d = <<>> THEN 0
    ELSE 10 * DigitsValue(SubSeq(d, 1, Len(d) - 1)) + (d[Len(d)] - 48)

\* -?(0|[1-9][0-9]*) at position i
JsonNumber(s, i) ==
    LET neg == s[i] = 45
        d   == IF neg THEN i + 1 ELSE i
    IN  IF d > Len(s) \/ ~IsDigit(s[d]) THEN JFail
        ELSE LET e == IF s[d] = 48 THEN d + 1 ELSE ScanDigits(s, d)
                 v == DigitsValue(SubSeq(s, d, e - 1))
             IN  JOk(JInt(IF neg THEN 0 - v ELSE v), e)

RECURSIVE JsonValue(_, _), JsonItems(_, _, _)
JsonValue(s, i0) ==
    LET i == SkipWs(s, i0) IN
    IF i > Len(s) THEN JFail
    ELSE IF s[i] = 91 THEN
        LET j == SkipWs(s, i + 1)
        IN  IF j <= Len(s) /\ s[j] = 93 THEN JOk(JList(<<>>), j + 1)
            ELSE JsonItems(s, i + 1, <<>>)
    ELSE JsonNumber(s, i)

JsonItems(s, i, acc) ==
    LET v == JsonValue(s, i) IN
    IF ~v.ok THEN JFail
    ELSE LET j == SkipWs(s, v.next) IN
         IF j > Len(s) THEN JFail
         ELSE IF s[j] = 44 THEN JsonItems(s, j + 1, Append(acc, v.val))
         ELSE IF s[j] = 93 THEN JOk(JList(Append(acc, v.val)), j + 1)
         ELSE JFail

\* json.loads(s): one value, then only whitespace
JsonLoads(s) ==
    LET v == JsonValue(s, 1)
    IN  IF v.ok /\ SkipWs(s, v.next) > Len(s) THEN v ELSE JFail

RECURSIVE NatToStr(_)
NatToStr(n) ==
    IF n < 10 THEN <<48 + n>> ELSE NatToStr(n \div 10) \o <<48 + (n % 10)>>

RECURSIVE JsonDumps(_), JoinDumps(_)
\* json.dumps(v) with the default separators (', ')
JsonDumps(v) ==
    IF v.t = "int"
    THEN IF v.n < 0 THEN <<45>> \o NatToStr(0 - v.n) ELSE NatToStr(v.n)
    ELSE <<91>> \o JoinDumps(v.items) \o <<93>>

JoinDumps(items) ==
    IF items = <<>> THEN <<>>
    ELSE IF Len(items) = 1 THEN JsonDumps(items[1])
    ELSE JsonDumps(items[1]) \o <<44, 32>> \o JoinDumps(Tail(items))

\* str(e) of json.JSONDecodeError, without the position: "Expecting value"
JsonErrorText ==
    <<69, 120, 112, 101, 99, 116, 105, 110, 103, 32, 118, 97, 108, 117, 101>>

\* ------------------------------------------------------------ spreadsheets
\* pd.read_excel(...).to_csv(index=False) is not modelled byte by byte: what
\* it makes of a payload is drawn from SheetResults when the call is made.
\* "Excel file format cannot be determined"
SheetErrorText ==
    <<69, 120, 99, 101, 108, 32, 102, 105, 108, 101, 32, 102, 111, 114, 109, 97, 116,
      32, 99, 97, 110, 110, 111, 116, 32, 98, 101, 32, 100, 101, 116, 101, 114, 109,
      105, 110, 101, 100>>

\* a parse error, or the CSV text "a\n1\n" of a one-column sheet
SheetResults ==
    {Raise(Exc("ValueError", SheetErrorText), <<>>), Return(<<97, 10, 49, 10>>, <<>>)}

\* -------------------------------------------------------- Format Normalizer
\* "Unsupported file type: ."
UnsupportedText ==
    <<85, 110, 115, 117, 112, 112, 111, 114, 116, 101, 100, 32, 102, 105, 108, 101, 32,
      116, 121, 112, 101, 58, 32, 46>>

\* FileExt with the segment after the first '.' taken instead of the last
FileExtFirst(fname) ==
    LET dots == {i \in 1..Len(fname) : fname[i] = 46}
    IN  IF dots = {} THEN LowerStr(fname)
        ELSE LET first == CHOOSE i \in dots : \A j \in dots : i <= j
                 later == {i \in dots : i > first}
                 stop  == IF later = {} THEN Len(fname) + 1
                          ELSE CHOOSE i \in later : \A j \in later : i <= j
             IN  LowerStr(SubSeq(fname, first + 1, stop - 1))

\* ext = fname.split('.')[-1].lower()
FileExt(fname) == LowerStr(SplitLast(fname))

\* process_file(file_content, fname); sheet is what pandas makes of
\* file_content
process_file(file_content, fname, sheet) ==
    LET ext == FileExt(fname) IN
    IF ext = <<99, 115, 118>> THEN try_decode(file_content)
    ELSE IF ext = <<106, 115, 111, 110>> THEN
        LET d == try_decode(file_content) IN
        IF d.raised THEN d
        ELSE LET j == JsonLoads(d.val)
             IN  IF j.ok THEN Return(JsonDumps(j.val), d.calls)
                 ELSE Raise(Exc("JSONDecodeError", JsonErrorText), d.calls)
    ELSE IF ext \in {<<120, 108, 115>>, <<120, 108, 115, 120>>} THEN sheet
    ELSE IF ext \in {<<116, 120, 116>>, <<109, 100>>} THEN try_decode(file_content)
    ELSE Raise(Exc("ValueError", UnsupportedText \o ext), <<>>)

\* ----------------------------------------------------------------- inputs
\* all sequences over S of length at most n
BoundedSeq(S, n) == UNION {[1..k -> S] : k \in 0..n}

\* request.form.get('question', ''): "What is 2+2?"
Questions == {<<87, 104, 97, 116, 32, 105, 115, 32, 50, 43, 50, 63>>}

\* bytes of a payload: '1' '[' ']' and 0xC3 0x81 0xE9 0xD8
ByteAlphabet == {49, 91, 93, 195, 129, 233, 216}
Payloads == BoundedSeq(ByteAlphabet, MaxBytes)

\* file names: stem, then "." or nothing, then an extension
\* stems "", "a.md"
Stems == {<<>>, <<97, 46, 109, 100>>}
Seps == {<<>>, <<46>>}
\* "csv" "CSV" "Json" "XLSX" "xls" "md" "TXT" "zip" "exe" ""
Exts ==
    {<<99, 115, 118>>, <<67, 83, 86>>, <<74, 115, 111, 110>>, <<88, 76, 83, 88>>,
     <<120, 108, 115>>, <<109, 100>>, <<84, 88, 84>>, <<122, 105, 112>>,
     <<101, 120, 101>>, <<>>}
Names == {s \o d \o e : s \in Stems, d \in Seps, e \in Exts}

\* what zipfile.ZipFile makes of a payload: BadZipFile, or its member list
NotZip == [valid |-> FALSE, members |-> <<>>]
Zip(members) == [valid |-> TRUE, members |-> members]

Member(name, content) == [name |-> name, content |-> content]
\* a.csv B.JSON c.xls e.xlsx d.MD f.txt n.exe in.zip csv, with contents
\* "1", 0xE9 (cp1252 only), 0x81 (no candidate decodes it)
ArchiveMembers ==
    {Member(<<97, 46, 99, 115, 118>>, <<49>>),
     Member(<<97, 46, 99, 115, 118>>, <<129>>),
     Member(<<66, 46, 74, 83, 79, 78>>, <<49>>),
     Member(<<66, 46, 74, 83, 79, 78>>, <<233>>),
     Member(<<99, 46, 120, 108, 115>>, <<49>>),
     Member(<<101, 46, 120, 108, 115, 120>>, <<49>>),
     Member(<<100, 46, 77, 68>>, <<233>>),
     Member(<<102, 46, 116, 120, 116>>, <<49>>),
     Member(<<110, 46, 101, 120, 101>>, <<49>>),
     Member(<<105, 110, 46, 122, 105, 112>>, <<80, 75>>),
     Member(<<99, 115, 118>>, <<49>>)}

\* request.files.get('file', None): no file part, or a FileStorage
NoUpload == [present |-> FALSE, filename |-> <<>>, bytes |-> <<>>, zip |-> NotZip]
\* names "a.zip", "A.ZIP" for archive payloads (which start with "PK")
ArchiveNames == {<<97, 46, 122, 105, 112>>, <<65, 46, 90, 73, 80>>}
\* payloads tried under every name: "1", 0xE9, 0x81
ProbePayloads == {<<49>>, <<233>>, <<129>>}
\* names tried with every payload: ".csv", "a.md.Json"
ProbeNames == {<<46, 99, 115, 118>>, <<97, 46, 109, 100, 46, 74, 115, 111, 110>>}
Uploads ==
    {NoUpload}
    \cup {[present |-> TRUE, filename |-> n, bytes |-> b, zip |-> NotZip] :
            n \in Names, b \in ProbePayloads}
    \cup {[present |-> TRUE, filename |-> n, bytes |-> b, zip |-> NotZip] :
            n \in ProbeNames, b \in Payloads}
    \cup {[present |-> TRUE, filename |-> n, bytes |-> <<80, 75>>, zip |-> Zip(m)] :
            n \in ArchiveNames, m \in BoundedSeq(ArchiveMembers, MaxMembers)}

\* os.environ.get("AIPROXY_TOKEN"): unset, '' or "tok"
EnvUnset == [set |-> FALSE, val |-> <<>>]
EnvTokens == {EnvUnset, [set |-> TRUE, val |-> <<>>], [set |-> TRUE, val |-> <<116, 111, 107>>]}

\* what the remote endpoint answers: the body of a response as response.json()
\* and the indexing of line 65 see it
Choice(hasContent, isStr, content) ==
    [hasContent |-> hasContent, isStr |-> isStr, content |-> content]
Body(isJson, hasChoices, choices) ==
    [isJson |-> isJson, hasChoices |-> hasChoices, choices |-> choices]
\* not JSON; no "choices"; empty "choices"; a message without "content";
\* content null; content " 4 \n", alone or followed by a second choice "4"
Bodies ==
    {Body(FALSE, FALSE, <<>>),
     Body(TRUE, FALSE, <<>>),
     Body(TRUE, TRUE, <<>>),
     Body(TRUE, TRUE, <<Choice(FALSE, FALSE, <<>>)>>),
     Body(TRUE, TRUE, <<Choice(TRUE, FALSE, <<>>)>>),
     Body(TRUE, TRUE, <<Choice(TRUE, TRUE, <<32, 52, 32, 10>>)>>),
     Body(TRUE, TRUE, <<Choice(TRUE, TRUE, <<32, 52, 32, 10>>),
                        Choice(TRUE, TRUE, <<52>>)>>)}

Unbound == [bound |-> FALSE, status |-> 0, body |-> Body(FALSE, FALSE, <<>>)]
Response(status, body) == [bound |-> TRUE, status |-> status, body |-> body]

\* requests.post either raises (no response object) or returns a response
PostOutcomes ==
    {[raises |-> TRUE, exc |-> Exc(t, <<>>), response |-> Unbound] :
        t \in {"ConnectionError", "Timeout"}}
    \cup {[raises |-> FALSE, exc |-> NoExc, response |-> Response(200, b)] : b \in Bodies}
    \cup {[raises |-> FALSE, exc |-> NoExc,
           response |-> Response(500, Body(FALSE, FALSE, <<>>))]}

\* --------------------------------------------------------- literal strings
\* "Missing API token"
MissingToken ==
    <<77, 105, 115, 115, 105, 110, 103, 32, 65, 80, 73, 32, 116, 111, 107, 101, 110>>
\* "LLM generation failed"
GenerationFailed ==
    <<76, 76, 77, 32, 103, 101, 110, 101, 114, 97, 116, 105, 111, 110, 32, 102, 97, 105,
      108, 101, 100>>
\* "File is not a zip file"
BadZipText ==
    <<70, 105, 108, 101, 32, 105, 115, 32, 110, 111, 116, 32, 97, 32, 122, 105, 112, 32,
      102, 105, 108, 101>>
\* "Error processing file: "
ErrorPrefix ==
    <<69, 114, 114, 111, 114, 32, 112, 114, 111, 99, 101, 115, 115, 105, 110, 103, 32,
      102, 105, 108, 101, 58, 32>>
\* f"\n\n--- FILE: {fname} ---\n\n"
Header(fname) ==
    <<10, 10, 45, 45, 45, 32, 70, 73, 76, 69, 58, 32>> \o fname
        \o <<32, 45, 45, 45, 10, 10>>

\* the template of lines 35-41 up to "Question: "
PromptHead ==
    <<89, 111, 117, 39, 114, 101, 32, 104, 101, 108, 112, 105, 110, 103, 32, 97, 32, 100,
      97, 116, 97, 32, 115, 99, 105, 101, 110, 99, 101, 32, 115, 116, 117, 100, 101, 110,
      116, 32, 115, 111, 108, 118, 105, 110, 103, 32, 97, 110, 32, 111, 98, 106, 101, 99,
      116, 105, 118, 101, 32, 97, 115, 115, 105, 103, 110, 109, 101, 110, 116, 46, 10, 32,
      32, 32, 32, 82, 101, 116, 117, 114, 110, 32, 111, 110, 108, 121, 32, 116, 104, 101,
      32, 102, 105, 110, 97, 108, 32, 99, 111, 114, 114, 101, 99, 116, 32, 97, 110, 115,
      119, 101, 114, 44, 32, 110, 111, 116, 104, 105, 110, 103, 32, 101, 108, 115, 101,
      32, 8212, 32, 100, 111, 32, 110, 111, 116, 32, 105, 110, 99, 108, 117, 100, 101, 32,
      101, 120, 112, 108, 97, 110, 97, 116, 105, 111, 110, 32, 111, 114, 32, 102, 111,
      114, 109, 97, 116, 116, 105, 110, 103, 46, 10, 10, 32, 32, 32, 32, 81, 117, 101,
      115, 116, 105, 111, 110, 58, 32>>
\* "\n    Data (if any):\n    "
PromptMid ==
    <<10, 32, 32, 32, 32, 68, 97, 116, 97, 32, 40, 105, 102, 32, 97, 110, 121, 41, 58, 10,
      32, 32, 32, 32>>
\* "\n    Answer:"
PromptTail == <<10, 32, 32, 32, 32, 65, 110, 115, 119, 101, 114, 58>>

\* the f-string of lines 35-41
RenderPrompt(q, data) == PromptHead \o q \o PromptMid \o data \o PromptTail

\* the outbound POST of line 59: headers and JSON payload
Outbound(tok, p) ==
    [authorization |-> <<66, 101, 97, 114, 101, 114, 32>> \o tok,
     model |-> "gpt-4o-mini", content |-> p, temperature |-> 0, max_tokens |-> 600]

\* an inbound response: jsonify({"answer": ...}), jsonify({"error": ...}), 400
\* or the framework's 500 page for an unhandled exception
Reply(status, kind, text) == [status |-> status, kind |-> kind, text |-> text]
NoReply == Reply(0, "none", <<>>)

\* the latest call of process_file: its file name and its outcome
NoEntry == [fname |-> <<>>, out |-> Return(<<>>, <<>>)]

\* ------------------------------------------------------------------- state
VARIABLES
    pc,             \* where solve_assignment / get_llm_answer stands
    question,       \* request.form 'question'
    uploaded_file,  \* request.files 'file'
    file_data,      \* the text accumulated by parse_uploaded_file
    idx,            \* position of the namelist() loop
    entry,          \* latest process_file call
    decoded,        \* the invocations of try_decode, in order
    exc,            \* the exception being handled
    token,          \* AIPROXY_TOKEN as read by get_llm_answer
    prompt,         \* the rendered prompt
    response,       \* the local 'response' of get_llm_answer
    answer,         \* the local 'answer'
    sent,           \* requests dispatched to the completion endpoint
    stages,         \* pipeline stages entered, in order
    reply           \* the inbound response

vars ==
    <<pc, question, uploaded_file, file_data, idx, entry, decoded, exc, token, prompt,
      response, answer, sent, stages, reply>>

Init ==
    /\ pc = "idle"
    /\ question = <<>>
    /\ uploaded_file = NoUpload
    /\ file_data = <<>>
    /\ idx = 0
    /\ entry = NoEntry
    /\ decoded = <<>>
    /\ exc = NoExc
    /\ token = EnvUnset
    /\ prompt = <<>>
    /\ response = Unbound
    /\ answer = <<>>
    /\ sent = <<>>
    /\ stages = <<>>
    /\ reply = NoReply

\* ------------------------------------------------------ Ingestion (119-141)
\* bool(uploaded_file): a FileStorage is truthy when its filename is not ''
Truthy(f) == f.present /\ f.filename # <<>>

\* filename.endswith('.zip')
IsZipName(filename) == EndsWith(filename, <<46, 122, 105, 112>>)

\* ('.csv', '.json', '.xls', '.xlsx', '.txt', '.md')
AcceptedSuffixes ==
    << <<46, 99, 115, 118>>, <<46, 106, 115, 111, 110>>, <<46, 120, 108, 115>>,
       <<46, 120, 108, 115, 120>>, <<46, 116, 120, 116>>, <<46, 109, 100>> >>

\* Eligible without the lower(): the suffix is matched case-sensitively
EligibleCaseSensitive(fname) == EndsWithAny(fname, AcceptedSuffixes)

\* Eligible with '.zip' added to the accepted suffixes
EligibleWithZip(fname) ==
    EndsWithAny(LowerStr(fname), Append(AcceptedSuffixes, <<46, 122, 105, 112>>))

\* the member filter of line 127
Eligible(fname) == EndsWithAny(LowerStr(fname), AcceptedSuffixes)

\* POST /api/ arrives: lines 91-95
solve_assignment(q, f) ==
    /\ pc = "idle"
    /\ pc' = "ingest"
    /\ question' = q
    /\ uploaded_file' = f
    /\ file_data' = <<>>
    /\ UNCHANGED <<idx, entry, decoded, exc, token, prompt, response, answer, sent,
                   stages, reply>>

\* lines 136-137 with a falsy uploaded_file: nothing is parsed
no_file ==
    /\ pc = "ingest"
    /\ ~Truthy(uploaded_file)
    /\ pc' = "llm"
    /\ stages' = Append(stages, "ingestion")
    /\ UNCHANGED <<question, uploaded_file, file_data, idx, entry, decoded, exc, token,
                   prompt, response, answer, sent, reply>>

\* parse_uploaded_file, else branch (lines 121-122, 132-134): the header is
\* appended, then the normalized payload unless process_file raises
parse_single(sheet) ==
    /\ pc = "ingest"
    /\ Truthy(uploaded_file)
    /\ LET filename == LowerStr(uploaded_file.filename)
           r == process_file(uploaded_file.bytes, filename, sheet)
       IN  /\ ~IsZipName(filename)
           /\ entry' = [fname |-> filename, out |-> r]
           /\ decoded' = decoded \o r.calls
           /\ file_data' = file_data \o Header(filename) \o r.val
           /\ exc' = r.exc
           /\ pc' = IF r.raised THEN "ingest_except" ELSE "llm"
    /\ stages' = Append(stages, "ingestion")
    /\ UNCHANGED <<question, uploaded_file, idx, token, prompt, response, answer, sent,
                   reply>>

\* parse_uploaded_file, zip branch (lines 121-125): ZipFile(...) raises
\* BadZipFile on a payload that is no archive
zip_open ==
    /\ pc = "ingest"
    /\ Truthy(uploaded_file)
    /\ IsZipName(LowerStr(uploaded_file.filename))
    /\ IF uploaded_file.zip.valid
       THEN /\ pc' = "zip_loop"
            /\ idx' = 1
            /\ exc' = exc
       ELSE /\ pc' = "ingest_except"
            /\ idx' = idx
            /\ exc' = Exc("BadZipFile", BadZipText)
    /\ stages' = Append(stages, "ingestion")
    /\ UNCHANGED <<question, uploaded_file, file_data, entry, decoded, token, prompt,
                   response, answer, sent, reply>>

\* one iteration of the namelist() loop (lines 126-131)
zip_member(sheet) ==
    /\ pc = "zip_loop"
    /\ idx <= Len(uploaded_file.zip.members)
    /\ LET m == uploaded_file.zip.members[idx]
           r == process_file(m.content, m.name, sheet)
       IN  IF Eligible(m.name)
           THEN /\ entry' = [fname |-> m.name, out |-> r]
                /\ decoded' = decoded \o r.calls
                /\ file_data' = file_data \o Header(m.name) \o r.val
                /\ exc' = r.exc
                /\ pc' = IF r.raised THEN "ingest_except" ELSE "zip_loop"
                /\ idx' = IF r.raised THEN idx ELSE idx + 1
           ELSE /\ idx' = idx + 1
                /\ UNCHANGED <<entry, decoded, file_data, exc, pc>>
    /\ UNCHANGED <<question, uploaded_file, token, prompt, response, answer, sent,
                   stages, reply>>

\* the loop is exhausted and the archive closed
zip_close ==
    /\ pc = "zip_loop"
    /\ idx > Len(uploaded_file.zip.members)
    /\ pc' = "llm"
    /\ UNCHANGED <<question, uploaded_file, file_data, idx, entry, decoded, exc, token,
                   prompt, response, answer, sent, stages, reply>>

\* ingest_except with the exception logged and swallowed: the request goes on
ingest_except_swallow ==
    /\ pc = "ingest_except"
    /\ pc' = "llm"
    /\ UNCHANGED <<question, uploaded_file, file_data, idx, entry, decoded, exc, token,
                   prompt, response, answer, sent, stages, reply>>

\* lines 139-141: any exception of the ingestion becomes a 400 with its text
ingest_except ==
    /\ pc = "ingest_except"
    /\ reply' = Reply(400, "error", ErrorPrefix \o exc.msg)
    /\ pc' = "done"
    /\ UNCHANGED <<question, uploaded_file, file_data, idx, entry, decoded, exc, token,
                   prompt, response, answer, sent, stages>>

\* ------------------------------------------------- get_llm_answer (29-72)
\* TokenMissing as 'AIPROXY_TOKEN is None': an empty value counts as present
TokenIsNone(tok) == ~tok.set

\* not AIPROXY_TOKEN
TokenMissing(tok) == ~tok.set \/ tok.val = <<>>

\* lines 30-55: the credential is read from the environment; without it the
\* sentinel is returned, with it the prompt, headers and payload are built
get_llm_answer(tok) ==
    /\ pc = "llm"
    /\ token' = tok
    /\ IF TokenMissing(tok)
       THEN /\ answer' = MissingToken
            /\ pc' = "return"
            /\ stages' = Append(stages, "credential")
            /\ prompt' = prompt
       ELSE /\ prompt' = RenderPrompt(question, file_data)
            /\ pc' = "post"
            /\ stages' = stages \o <<"credential", "prompt">>
            /\ answer' = answer
    /\ UNCHANGED <<question, uploaded_file, file_data, idx, entry, decoded, exc,
                   response, sent, reply>>

\* line 59: the request is dispatched; a transport failure raises and leaves
\* 'response' unassigned
requests_post(o) ==
    /\ pc = "post"
    /\ sent' = Append(sent, Outbound(token.val, prompt))
    /\ stages' = Append(stages, "completion")
    /\ IF o.raises
       THEN /\ exc' = o.exc
            /\ pc' = "llm_except"
            /\ response' = response
       ELSE /\ response' = o.response
            /\ pc' = "read"
            /\ exc' = exc
    /\ UNCHANGED <<question, uploaded_file, file_data, idx, entry, decoded, token,
                   prompt, answer, reply>>

\* lines 63-65 on a response: raise_for_status(), json(),
\* ["choices"][0]["message"]["content"].strip()
ReadAnswer(resp) ==
    IF resp.status >= 400 /\ resp.status < 600 THEN Raise(Exc("HTTPError", <<>>), <<>>)
    ELSE IF ~resp.body.isJson THEN Raise(Exc("JSONDecodeError", <<>>), <<>>)
    ELSE IF ~resp.body.hasChoices THEN Raise(Exc("KeyError", <<>>), <<>>)
    ELSE IF resp.body.choices = <<>> THEN Raise(Exc("IndexError", <<>>), <<>>)
    ELSE LET c == resp.body.choices[1] IN
         IF ~c.hasContent THEN Raise(Exc("KeyError", <<>>), <<>>)
         ELSE IF ~c.isStr THEN Raise(Exc("AttributeError", <<>>), <<>>)
         ELSE Return(Strip(c.content), <<>>)

read_answer ==
    /\ pc = "read"
    /\ LET r == ReadAnswer(response)
       IN  IF r.raised
           THEN /\ exc' = r.exc
                /\ pc' = "llm_except"
                /\ answer' = answer
           ELSE /\ answer' = r.val
                /\ pc' = "return"
                /\ exc' = exc
    /\ UNCHANGED <<question, uploaded_file, file_data, idx, entry, decoded, token,
                   prompt, response, sent, stages, reply>>

\* llm_except with a retry: the handler goes back to the POST
llm_except_retry ==
    /\ pc = "llm_except"
    /\ pc' = "post"
    /\ UNCHANGED <<question, uploaded_file, file_data, idx, entry, decoded, exc, token,
                   prompt, response, answer, sent, stages, reply>>

\* lines 66-70: the handler reads 'response', which is unassigned when
\* requests.post raised: that read raises UnboundLocalError inside the
\* handler, and nothing catches it
llm_except ==
    /\ pc = "llm_except"
    /\ IF response.bound
       THEN /\ answer' = GenerationFailed
            /\ pc' = "return"
            /\ exc' = exc
       ELSE /\ exc' = Exc("UnboundLocalError", <<>>)
            /\ pc' = "unhandled"
            /\ answer' = answer
    /\ UNCHANGED <<question, uploaded_file, file_data, idx, entry, decoded, token,
                   prompt, response, sent, stages, reply>>

\* lines 72 and 143-144: return answer; jsonify({"answer": answer})
return_answer ==
    /\ pc = "return"
    /\ reply' = Reply(200, "answer", answer)
    /\ pc' = "done"
    /\ UNCHANGED <<question, uploaded_file, file_data, idx, entry, decoded, exc, token,
                   prompt, response, answer, sent, stages>>

\* line 143 has no handler: an exception leaving get_llm_answer leaves
\* solve_assignment too, and the caller gets the framework's 500
unhandled ==
    /\ pc = "unhandled"
    /\ reply' = Reply(500, "internal_error", <<>>)
    /\ pc' = "done"
    /\ UNCHANGED <<question, uploaded_file, file_data, idx, entry, decoded, exc, token,
                   prompt, response, answer, sent, stages>>

\* the request is over; its locals are gone and the next one may arrive
finish ==
    /\ pc = "done"
    /\ pc' = "idle"
    /\ question' = <<>>
    /\ uploaded_file' = NoUpload
    /\ file_data' = <<>>
    /\ idx' = 0
    /\ entry' = NoEntry
    /\ decoded' = <<>>
    /\ exc' = NoExc
    /\ token' = EnvUnset
    /\ prompt' = <<>>
    /\ response' = Unbound
    /\ answer' = <<>>
    /\ sent' = <<>>
    /\ stages' = <<>>
    /\ reply' = NoReply

Next ==
    \/ \E q \in Questions, f \in Uploads : solve_assignment(q, f)
    \/ no_file
    \/ \E sheet \in SheetResults : parse_single(sheet)
    \/ zip_open
    \/ \E sheet \in SheetResults : zip_member(sheet)
    \/ zip_close
    \/ ingest_except
    \/ \E tok \in EnvTokens : get_llm_answer(tok)
    \/ \E o \in PostOutcomes : requests_post(o)
    \/ read_answer
    \/ llm_except
    \/ return_answer
    \/ unhandled
    \/ finish

Spec == Init /\ [][Next]_vars

\* --------------------------------------------------------------- properties
\* csv, txt, md, json, xls, xlsx
SupportedExts ==
    {<<99, 115, 118>>, <<116, 120, 116>>, <<109, 100>>, <<106, 115, 111, 110>>,
     <<120, 108, 115>>, <<120, 108, 115, 120>>}

HasDot(s) == \E i \in 1..Len(s) : s[i] = 46

\* the lowercased suffix after the last '.', read off the name from the left
RECURSIVE AfterLastDot(_)
AfterLastDot(s) ==
    IF HasDot(s)
    THEN AfterLastDot(SubSeq(s, (CHOOSE i \in 1..Len(s) :
                                    s[i] = 46 /\ \A j \in 1..(i - 1) : s[j] # 46) + 1,
                             Len(s)))
    ELSE [i \in 1..Len(s) |-> IF s[i] \in 65..90 THEN s[i] + 32 ELSE s[i]]

\* a member name with an accepted suffix: '.' and a supported extension,
\* whatever the case
HasAcceptedSuffix(name) == HasDot(name) /\ AfterLastDot(name) \in SupportedExts

\* t occurs in s
IsInfix(t, s) == \E i \in 0..(Len(s) - Len(t)) : SubSeq(s, i + 1, i + Len(t)) = t

\* the names of the section headers "\n\n--- FILE: <name> ---\n\n" of a
\* text, in the order they occur
RECURSIVE SectionNames(_)
SectionNames(t) ==
    LET open  == <<10, 10, 45, 45, 45, 32, 70, 73, 76, 69, 58, 32>>
        close == <<32, 45, 45, 45, 10, 10>>
    IN  IF Len(t) < Len(open) + Len(close) THEN <<>>
        ELSE IF SubSeq(t, 1, Len(open)) # open THEN SectionNames(Tail(t))
        ELSE LET rest == SubSeq(t, Len(open) + 1, Len(t))
                 ends == {k \in 1..(Len(rest) - Len(close) + 1) :
                            SubSeq(rest, k, k + Len(close) - 1) = close}
             IN  IF ends = {} THEN <<>>
                 ELSE LET k == CHOOSE e \in ends : \A o \in ends : e <= o
                      IN  <<SubSeq(rest, 1, k - 1)>>
                            \o SectionNames(SubSeq(rest, k + Len(close), Len(rest)))

RECURSIVE AcceptedNames(_)
AcceptedNames(members) ==
    IF members = <<>> THEN <<>>
    ELSE (IF HasAcceptedSuffix(members[1].name) THEN <<members[1].name>> ELSE <<>>)
            \o AcceptedNames(Tail(members))

\* the request carried an archive that opened
ArchiveRequest ==
    /\ Truthy(uploaded_file)
    /\ uploaded_file.zip.valid
    /\ "ingestion" \in {stages[i] : i \in 1..Len(stages)}
    /\ idx >= 1

StageSet == {stages[i] : i \in 1..Len(stages)}

\* some step of the ingestion raised: process_file, or the opening of the
\* archive
IngestionFailed ==
    \/ entry.out.raised
    \/ /\ "ingestion" \in StageSet
       /\ Truthy(uploaded_file)
       /\ ~uploaded_file.zip.valid
       /\ IsZipName(LowerStr(uploaded_file.filename))

\* the completion call was made and failed: no response object, a 4xx/5xx
\* status, or a body without choices[0].message.content text
CompletionFailed ==
    /\ "completion" \in StageSet
    /\ pc \in {"llm_except", "unhandled", "return", "done"}
    /\ \/ ~response.bound
       \/ response.status >= 400
       \/ ~response.body.isJson
       \/ ~response.body.hasChoices
       \/ response.body.choices = <<>>
       \/ /\ response.body.choices # <<>>
          /\ ~(response.body.choices[1].hasContent /\ response.body.choices[1].isStr)

\* C1: after a successful ingestion with the credential present, every
\* failure of the remote call (transport failure, non-success status, body
\* without choices[0].message.content) ends in the answer "LLM generation
\* failed" in a normal {answer: ...} response, and no exception leaves
\* get_llm_answer.
C1_FailureBecomesSentinel ==
    /\ pc # "unhandled"
    /\ (pc = "done" /\ CompletionFailed) => reply = Reply(200, "answer", GenerationFailed)

\* the credential read by get_llm_answer was unset or empty
CredentialAbsent == "credential" \in StageSet /\ (~token.set \/ Len(token.val) = 0)

\* C2: when the credential read yields nothing, get_llm_answer returns
\* exactly "Missing API token" and no request is ever dispatched.
C2_MissingTokenShortCircuits ==
    CredentialAbsent =>
        /\ sent = <<>>
        /\ "completion" \notin StageSet
        /\ pc \in {"return", "done"}
        /\ answer = MissingToken
        /\ (pc = "done" => reply = Reply(200, "answer", MissingToken))

C2_Witness ==
    /\ pc = "done"
    /\ token.set /\ token.val = <<>>
    /\ "credential" \in StageSet
    /\ reply.text = MissingToken

\* C3: when any step of the ingestion fails, also on a later archive member
\* after earlier ones were appended, the request ends with an error
\* response: get_llm_answer is never entered (no credential read, no
\* outbound request), and neither an answer nor the accumulated text is
\* returned.
C3_IngestionFailureAborts ==
    IngestionFailed =>
        /\ pc \in {"ingest_except", "done"}
        /\ "credential" \notin StageSet
        /\ sent = <<>>
        /\ answer = <<>>
        /\ (pc = "done" =>
              /\ reply.status = 400
              /\ reply.kind = "error"
              /\ (file_data # <<>> => ~IsInfix(file_data, reply.text)))

C3_Witness ==
    /\ pc = "done"
    /\ ArchiveRequest
    /\ idx = 2
    /\ entry.out.raised
    /\ Len(SectionNames(file_data)) = 2
    /\ reply.kind = "error"

\* C4: once an archive is ingested without error, the text holds exactly
\* one section header per member with an accepted suffix, in the order of
\* the member list; the other members, nested archives included, leave no
\* trace.
C4_OneSectionPerEligibleMember ==
    (pc = "llm" /\ ArchiveRequest) =>
        SectionNames(file_data) = AcceptedNames(uploaded_file.zip.members)

C4_Witness ==
    /\ pc = "llm"
    /\ ArchiveRequest
    /\ Len(uploaded_file.zip.members) = 2
    /\ uploaded_file.zip.members[1].name = <<105, 110, 46, 122, 105, 112>>
    /\ SectionNames(file_data) = <<uploaded_file.zip.members[2].name>>

\* C5: process_file applied to a file name without '.' always fails as
\* unsupported, whatever the name and the payload.
C5_DotlessNameFails ==
    (entry # NoEntry /\ ~HasDot(entry.fname)) =>
        /\ entry.out.raised
        /\ entry.out.exc = Exc("ValueError", UnsupportedText \o AfterLastDot(entry.fname))

\* the four pipeline stages, in order
Pipeline == <<"ingestion", "credential", "prompt", "completion">>

\* C6: one request issues at most one POST to the completion endpoint,
\* whatever its outcome, and enters each stage at most once, in the order
\* ingestion, prompt assembly, completion.
C6_NoRetries ==
    /\ Len(sent) <= 1
    /\ Len(stages) <= Len(Pipeline)
    /\ stages = SubSeq(Pipeline, 1, Len(stages))
    /\ (Len(sent) = 1 <=> "completion" \in StageSet)

C6_Witness ==
    /\ pc = "done"
    /\ Len(sent) = 1
    /\ response.bound /\ response.status = 500
    /\ reply.text = GenerationFailed

\* the candidates that decode b, by position in the fixed order
Decodable(b) == {i \in 1..Len(Encodings) : Decode(b, Encodings[i]).ok}

\* C7: try_decode returns the decoding under the first of utf-8, utf-16,
\* cp1252 that decodes the payload; a payload only cp1252 decodes is decoded
\* by it; a payload none decodes fails with a decode error and no other
\* kind of error.
C7_FirstCandidateOrDecodeError ==
    \A i \in 1..Len(decoded) :
        LET c == decoded[i]
            d == Decodable(c.content)
        IN  IF d = {}
            THEN c.raised /\ c.exc.type = "UnicodeDecodeError"
            ELSE LET first == CHOOSE k \in d : \A j \in d : k <= j
                 IN  ~c.raised /\ c.text = Decode(c.content, Encodings[first]).val

\* C8: without a file the ingested text is empty and that is no error: the
\* completion adapter is called with the question and an empty data
\* section, and the response carries an answer and no error.
C8_NoFileStillAnswers ==
    (pc = "done" /\ ~Truthy(uploaded_file)) =>
        /\ file_data = <<>>
        /\ "credential" \in StageSet
        /\ ("prompt" \in StageSet =>
              prompt = PromptHead \o question \o PromptMid \o PromptTail)
        /\ reply.status = 200
        /\ reply.kind = "answer"

\* C9: for a file name whose lowercased suffix after the last '.' is not
\* csv, txt, md, json, xls or xlsx, process_file fails with the unsupported
\* format error naming ".ext", and try_decode is not invoked on the payload.
C9_UnsupportedSuffixRejected ==
    (entry # NoEntry /\ AfterLastDot(entry.fname) \notin SupportedExts) =>
        /\ entry.out.raised
        /\ entry.out.exc = Exc("ValueError", UnsupportedText \o AfterLastDot(entry.fname))
        /\ entry.out.calls = <<>>
        /\ (~ArchiveRequest => decoded = <<>>)
        /\ pc \in {"ingest_except", "done"}

C9_Witness ==
    /\ pc = "ingest_except"
    /\ entry.fname = <<97, 46, 109, 100, 46, 101, 120, 101>>
    /\ exc.msg = UnsupportedText \o <<101, 120, 101>>
    /\ decoded = <<>>

\* the unsupported format error of process_file
IsUnsupported(e) ==
    /\ e.type = "ValueError"
    /\ Len(e.msg) >= Len(UnsupportedText)
    /\ SubSeq(e.msg, 1, Len(UnsupportedText)) = UnsupportedText

\* C10: the member filter and the dispatch of process_file agree: a member
\* that passes the filter is dispatched to a supported branch, a member
\* process_file would reject is skipped before process_file is called, so
\* inside an archive the unsupported format error does not occur.
C10_FilterAgreesWithDispatch ==
    /\ \A i \in 1..Len(uploaded_file.zip.members) :
          LET n == uploaded_file.zip.members[i].name
          IN  /\ Eligible(n) => FileExt(n) \in SupportedExts
              /\ FileExt(n) \notin SupportedExts => ~Eligible(n)
    /\ ArchiveRequest =>
          /\ ~IsUnsupported(exc)
          /\ ~IsUnsupported(entry.out.exc)
          /\ entry # NoEntry => FileExt(entry.fname) \in SupportedExts

C10_Witness ==
    /\ pc = "zip_loop"
    /\ ArchiveRequest
    /\ idx = 3
    /\ uploaded_file.zip.members[1].name = <<110, 46, 101, 120, 101>>
    /\ entry.fname = uploaded_file.zip.members[2].name
    /\ ~entry.out.raised
====
